---- MODULE Spec2Model ----
(***************************************************************************)
(* A model of the type-mover extension: the import rewriter                *)
(* (importManager.ts), the path resolver (pathResolver.ts), the file       *)
(* manager (fileManager.ts) and the moveType command.                      *)
(*                                                                         *)
(* Text is modelled at the granularity the code works at: a document is a  *)
(* sequence of lines and a line is a sequence of statements; a position's  *)
(* character is the index of a statement boundary in its line.  Strings    *)
(* that the code inspects character by character (paths, specifiers) are   *)
(* sequences of one-character strings.                                     *)
(***************************************************************************)
EXTENDS Integers, Sequences, FiniteSets, TLC

VARIABLES
    rphase,     \* import rewriter: "start", "once", "twice" (runs of updateImports)
    rbefore,    \* the document the last batch was computed from
    rdoc,       \* the referencing file's document
    rchange,    \* the ImportChange being processed
    redits,     \* the batch last submitted to the edit applier
    rok,        \* the edit applier's answer to that batch
    pphase,     \* path resolver: "start", "done"
    presolver,  \* the PathResolver after its constructor
    pfrom,      \* the importing file's path
    pto,        \* the imported file's path
    palias,     \* tryMatchPathAlias(pto)
    pspec,      \* resolveImportPath(pfrom, pto)
    pnew,       \* the newImportPath calculateChanges computes
    pconfig,    \* the configuration file the resolver was constructed from
    pimport,    \* an import specifier found in the importing file
    ppreserve,  \* shouldPreserveImportType(pimport, pfrom)
    dphase,     \* file manager: "start", "done", "refused"
    dfile,      \* the destination file on disk
    dopens,     \* whether openTextDocument succeeds on the destination
    dcontent,   \* the content createDestinationFile is called with
    dresult,    \* the destination file after the call
    tphase,     \* type finder: "start", "done"
    tdoc,       \* the document findTypeInFile opens
    tname,      \* the type name it is asked for
    tfound,     \* what it returns
    world,      \* "nominal": the editor's services answer as documented;
                \* "adverse": they may also refuse or answer nothing
    tsconfig,   \* the configuration file on disk
    fs,         \* the workspace: path -> [exists, doc]
    fs0,        \* the workspace when the running command was invoked
    fsOrig,     \* the workspace in the initial state
    history,    \* the completed runs of the command before this one
    pc,         \* where the running moveType is
    document,   \* editor.document.uri.fsPath
    selectedType,
    destinationPath,
    references,
    changes,    \* changes.importChanges
    nextChange, \* updateImports: index of the change to process next
    applyLog,   \* the workspace edits submitted by this run, with the answers
    message     \* what the run showed the user

rvars == <<rphase, rbefore, rdoc, rchange, redits, rok>>

pvars == <<pphase, presolver, pfrom, pto, palias, pspec, pnew, pconfig, pimport, ppreserve>>

dvars == <<dphase, dfile, dopens, dcontent, dresult>>

tvars == <<tphase, tdoc, tname, tfound>>

mvars == <<world, tsconfig, fs, fs0, fsOrig, history, pc, document, selectedType,
           destinationPath, references, changes, nextChange, applyLog, message>>

vars == <<rphase, rbefore, rdoc, rchange, redits, rok,
          pphase, presolver, pfrom, pto, palias, pspec, pnew, pconfig, pimport, ppreserve,
          dphase, dfile, dopens, dcontent, dresult,
          tphase, tdoc, tname, tfound,
          world, tsconfig, fs, fs0, fsOrig, history, pc, document, selectedType,
          destinationPath, references, changes, nextChange, applyLog, message>>

----------------------------------------------------------------------------
(* Generic sequence helpers *)

Range(s) == {s[i] : i \in 1..Len(s)}

RECURSIVE Flatten(_)
Flatten(ss) == IF ss = <<>> THEN <<>> ELSE Head(ss) \o Flatten(Tail(ss))

Min(a, b) == IF a <= b THEN a ELSE b

----------------------------------------------------------------------------
(* Identifiers.  Array.prototype.sort() without a comparator orders strings *)
(* by UTF-16 code units; CodeUnitOrder lists the identifiers of the model   *)
(* in that order.                                                           *)

CodeUnitOrder == <<"Bar", "Def", "Foo", "Orig", "Qux">>

Rank(name) == CHOOSE i \in 1..Len(CodeUnitOrder) : CodeUnitOrder[i] = name

NameLess(a, b) == Rank(a) < Rank(b)

RECURSIVE InsertSorted(_, _)
InsertSorted(x, s) ==
    IF s = <<>> THEN <<x>>
    ELSE IF NameLess(x, Head(s)) THEN <<x>> \o s
         ELSE <<Head(s)>> \o InsertSorted(x, Tail(s))

RECURSIVE SortNames(_)
SortNames(s) == IF s = <<>> THEN <<>> ELSE InsertSorted(Head(s), SortNames(Tail(s)))

----------------------------------------------------------------------------
(* Strings the code inspects are sequences of one-character strings.        *)

StartsWith(s, prefix) == Len(prefix) <= Len(s) /\ SubSeq(s, 1, Len(prefix)) = prefix

EndsWith(s, suffix) ==
    Len(suffix) <= Len(s) /\ SubSeq(s, Len(s) - Len(suffix) + 1, Len(s)) = suffix

DropLast(s, n) == SubSeq(s, 1, Len(s) - n)

\* String.replace(/\*$/, '')
StripTrailingStar(s) == IF EndsWith(s, <<"*">>) THEN DropLast(s, 1) ELSE s

\* String.replace(/\.(ts|tsx|vue)$/, '')
StripSourceExtension(s) ==
    IF EndsWith(s, <<".", "t", "s">>) THEN DropLast(s, 3)
    ELSE IF EndsWith(s, <<".", "t", "s", "x">>) THEN DropLast(s, 4)
    ELSE IF EndsWith(s, <<".", "v", "u", "e">>) THEN DropLast(s, 4)
    ELSE s

\* An optional string: a value or undefined.
Some(str) == [some |-> TRUE, value |-> str]

Undefined == [some |-> FALSE, value |-> <<>>]

\* JavaScript truthiness of an optional string: undefined and '' are falsy.
Truthy(opt) == opt.some /\ opt.value # <<>>

----------------------------------------------------------------------------
(* The functions of the POSIX path module the code uses. *)

RECURSIVE SplitAcc(_, _, _)
SplitAcc(s, cur, out) ==
    IF s = <<>> THEN (IF cur = <<>> THEN out ELSE Append(out, cur))
    ELSE IF Head(s) = "/"
         THEN SplitAcc(Tail(s), <<>>, IF cur = <<>> THEN out ELSE Append(out, cur))
         ELSE SplitAcc(Tail(s), Append(cur, Head(s)), out)

\* The non-empty segments of a path.
Segments(path) == SplitAcc(path, <<>>, <<>>)

RECURSIVE NormalizeAcc(_, _)
NormalizeAcc(segs, out) ==
    IF segs = <<>> THEN out
    ELSE IF Head(segs) = <<".">> THEN NormalizeAcc(Tail(segs), out)
    ELSE IF Head(segs) = <<".", ".">>
         THEN NormalizeAcc(Tail(segs), IF out = <<>> THEN out ELSE DropLast(out, 1))
    ELSE NormalizeAcc(Tail(segs), Append(out, Head(segs)))

\* The segments of an absolute path with "." and ".." resolved.
NormalSegments(path) == NormalizeAcc(Segments(path), <<>>)

RECURSIVE JoinSegments(_)
JoinSegments(segs) ==
    IF segs = <<>> THEN <<>>
    ELSE IF Len(segs) = 1 THEN Head(segs)
    ELSE Head(segs) \o <<"/">> \o JoinSegments(Tail(segs))

Absolute(segs) == <<"/">> \o JoinSegments(segs)

IsAbsolute(path) == path # <<>> /\ path[1] = "/"

\* path.resolve(base, rel) and path.join(base, rel) for an absolute base.
pathResolve(base, rel) ==
    IF IsAbsolute(rel) THEN Absolute(NormalSegments(rel))
    ELSE Absolute(NormalSegments(base \o <<"/">> \o rel))

pathDirname(path) ==
    LET segs == Segments(path)
    IN  IF Len(segs) <= 1 THEN <<"/">> ELSE Absolute(DropLast(segs, 1))

RECURSIVE CommonPrefixLen(_, _)
CommonPrefixLen(a, b) ==
    IF a = <<>> \/ b = <<>> \/ Head(a) # Head(b) THEN 0
    ELSE 1 + CommonPrefixLen(Tail(a), Tail(b))

\* path.relative(from, to) for absolute paths.
pathRelative(from, to) ==
    LET f == NormalSegments(from)
        t == NormalSegments(to)
        k == CommonPrefixLen(f, t)
        ups == [i \in 1..(Len(f) - k) |-> <<".", ".">>]
    IN  JoinSegments(ups \o SubSeq(t, k + 1, Len(t)))

----------------------------------------------------------------------------
(* PathResolver.  A resolver is the three fields loadTsConfig may leave      *)
(* undefined: configDir, baseUrl, and paths (the pattern -> targets entries  *)
(* in the order Object.entries yields them).                                *)

Resolver(configDir, baseUrl, hasPaths, paths) ==
    [configDir |-> configDir, baseUrl |-> baseUrl, hasPaths |-> hasPaths, paths |-> paths]

\* The resolver a failed or skipped load leaves: every field undefined.
NoConfig == Resolver(Undefined, Undefined, FALSE, <<>>)

PathEntry(pattern, targets) == [pattern |-> pattern, targets |-> targets]

\* What the constructor finds on disk: the typeRefactor.tsconfig setting, and
\* the file ts.readConfigFile reads.
TsConfig(exists, error, baseUrl, hasPaths, paths) ==
    [exists |-> exists, error |-> error, baseUrl |-> baseUrl,
     hasPaths |-> hasPaths, paths |-> paths]

TsConfigName == <<"t", "s", "c", "o", "n", "f", "i", "g", ".", "j", "s", "o", "n">>

\* loadTsConfig that does not look at the error readConfigFile reports.
loadTsConfig_IgnoreError(workspaceRoot, configRelativePath, file) ==
    IF workspaceRoot = <<>> \/ ~file.exists THEN NoConfig
    ELSE Resolver(Some(pathDirname(pathResolve(workspaceRoot, configRelativePath.value))),
                  IF Truthy(file.baseUrl) THEN file.baseUrl ELSE Some(<<".">>),
                  file.hasPaths, file.paths)

loadTsConfig(workspaceRoot, configRelativePath, file) ==
    LET configPath ==
            IF Truthy(configRelativePath)
            THEN Some(pathResolve(workspaceRoot, configRelativePath.value))
            ELSE IF file.exists THEN Some(pathResolve(workspaceRoot, TsConfigName))
            ELSE Undefined
    IN  IF workspaceRoot = <<>> THEN NoConfig
        ELSE IF ~configPath.some \/ ~file.exists THEN NoConfig
        ELSE IF file.error THEN NoConfig
        ELSE Resolver(Some(pathDirname(configPath.value)),
                      IF Truthy(file.baseUrl) THEN file.baseUrl ELSE Some(<<".">>),
                      file.hasPaths, file.paths)

RECURSIVE MatchEntries(_, _, _)
MatchEntries(entries, absoluteBaseUrl, absoluteFilePath) ==
    IF entries = <<>> THEN Undefined
    ELSE LET aliasPrefix == StripTrailingStar(Head(entries).pattern)
             aliasTargetPath == StripTrailingStar(Head(entries).targets[1])
             absoluteAliasPath == pathResolve(absoluteBaseUrl, aliasTargetPath)
         IN  IF StartsWith(absoluteFilePath, absoluteAliasPath)
             THEN LET relativeToAlias == pathRelative(absoluteAliasPath, absoluteFilePath)
                  IN  Some(StripSourceExtension(aliasPrefix \o relativeToAlias))
             ELSE MatchEntries(Tail(entries), absoluteBaseUrl, absoluteFilePath)

tryMatchPathAlias(r, absoluteFilePath) ==
    IF ~r.hasPaths \/ ~Truthy(r.baseUrl) \/ ~Truthy(r.configDir) THEN Undefined
    ELSE MatchEntries(r.paths, pathResolve(r.configDir.value, r.baseUrl.value),
                      absoluteFilePath)

\* resolveImportPath that never consults the aliases.
resolveImportPath_RelativeOnly(r, fromPath, toPath) ==
    LET relativePath == pathRelative(pathDirname(fromPath), toPath)
    IN  IF ~StartsWith(relativePath, <<".">>) THEN <<".", "/">> \o relativePath
        ELSE relativePath

resolveImportPath(r, fromPath, toPath) ==
    LET aliasPath == tryMatchPathAlias(r, toPath)
        relativePath == pathRelative(pathDirname(fromPath), toPath)
    IN  IF Truthy(aliasPath) THEN aliasPath.value
        ELSE IF ~StartsWith(relativePath, <<".">>) THEN <<".", "/">> \o relativePath
        ELSE relativePath

\* calculateChanges: const newImportPath = aliasPath || resolveImportPath(...)
newImportPathFor(r, refPath, destPath) ==
    LET aliasPath == tryMatchPathAlias(r, destPath)
    IN  IF Truthy(aliasPath) THEN aliasPath.value
        ELSE resolveImportPath(r, refPath, destPath)

\* pattern.replace(/\*/g, ''): every wildcard is removed.
RemoveStars(pattern) == SelectSeq(pattern, LAMBDA ch : ch # "*")

\* shouldPreserveImportType that looks at the first pattern only.
shouldPreserveImportType_FirstPattern(r, importPath, fromPath) ==
    /\ r.hasPaths
    /\ r.paths # <<>>
    /\ StartsWith(importPath, RemoveStars(r.paths[1].pattern))

shouldPreserveImportType(r, importPath, fromPath) ==
    /\ r.hasPaths
    /\ \E i \in 1..Len(r.paths) : StartsWith(importPath, RemoveStars(r.paths[i].pattern))

----------------------------------------------------------------------------
(* Statements.  Every statement is a record with the same fields.           *)
(*   kind      "import" | "decl" | "code"                                   *)
(*   spec      the module specifier (import)                                *)
(*   typeOnly  importClause.isTypeOnly (import)                             *)
(*   clause    "named" | "namespace" | "default" | "none": the shape of the *)
(*             import clause; "none" is an import without a clause          *)
(*   default   the default import's name, "" when there is none            *)
(*   elements  the named bindings, each [name, prop]: `prop as name`, with  *)
(*             prop = "" for a plain binding                                *)
(*   name      the declared name (decl)                                     *)

NoSpec == <<>>

Import(spec, typeOnly, clause, default, elements) ==
    [kind |-> "import", spec |-> spec, typeOnly |-> typeOnly, clause |-> clause,
     default |-> default, elements |-> elements, name |-> ""]

Plain(name) == [name |-> name, prop |-> ""]

Aliased(prop, name) == [name |-> name, prop |-> prop]

NamedImport(spec, typeOnly, names) ==
    Import(spec, typeOnly, "named", "", [i \in 1..Len(names) |-> Plain(names[i])])

Decl(name) ==
    [kind |-> "decl", spec |-> NoSpec, typeOnly |-> FALSE, clause |-> "none",
     default |-> "", elements |-> <<>>, name |-> name]

Code ==
    [kind |-> "code", spec |-> NoSpec, typeOnly |-> FALSE, clause |-> "none",
     default |-> "", elements |-> <<>>, name |-> ""]

ElementNames(node) == [i \in 1..Len(node.elements) |-> node.elements[i].name]

----------------------------------------------------------------------------
(* Documents, positions and text edits (the vscode.TextDocument,            *)
(* vscode.Position, vscode.Range and ImportEdit the code uses).             *)
(* Lines and characters are counted from 0, as in the editor API.           *)

Pos(line, character) == [line |-> line, character |-> character]

MkRange(start, end) == [start |-> start, end |-> end]

\* An edit of the import rewriter: interface ImportEdit.
ImportEdit(range, newText) == [range |-> range, newText |-> newText]

\* The text of one statement, and the same followed by a line break.
EmptyText == << <<>> >>

StmtText(stmt) == << <<stmt>> >>

StmtLineText(stmt) == << <<stmt>>, <<>> >>

LineCount(doc) == Len(doc)

LineAt(doc, line) == doc[line + 1]

\* ts.forEachChild(sourceFile, ...): the top-level statements in document
\* order, each with the positions of its start and end
\* (document.positionAt(node.getStart()), document.positionAt(node.getEnd())).
StatementsOfLine(doc, line) ==
    [c \in 1..Len(LineAt(doc, line)) |->
        [node |-> LineAt(doc, line)[c], start |-> Pos(line, c - 1), end |-> Pos(line, c)]]

RECURSIVE StatementsFrom(_, _)
StatementsFrom(doc, line) ==
    IF line >= LineCount(doc) THEN <<>>
    ELSE StatementsOfLine(doc, line) \o StatementsFrom(doc, line + 1)

Statements(doc) == StatementsFrom(doc, 0)

ImportDeclarations(doc) == SelectSeq(Statements(doc), LAMBDA st : st.node.kind = "import")

\* document.positionAt(0)
StartOfDocument == Pos(0, 0)

----------------------------------------------------------------------------
(* ImportManager: the edits for one document and one ImportChange.          *)

ImportChange(uri, oldImportPath, newImportPath, typeName, isTypeOnly) ==
    [uri |-> uri, oldImportPath |-> oldImportPath, newImportPath |-> newImportPath,
     typeName |-> typeName, isTypeOnly |-> isTypeOnly]

\* The statement the template literal
\*   `import ${typeKeyword}{ ${names.join(', ')} } from "${specifier}";`
\* reads back as: a named import of plain bindings, with no default import.
ImportStatement(typeKeyword, names, specifier) == NamedImport(specifier, typeKeyword, names)

createEdit(start, end, newText) == ImportEdit(MkRange(start, end), newText)

\* importClause?.namedBindings && ts.isNamedImports(importClause.namedBindings)
getNamedImports(node) == node.clause = "named"

HasElementNamed(node, typeName) == \E i \in 1..Len(node.elements) : node.elements[i].name = typeName

\* handleOldImportPath with the sole-binding case lost: the declaration is
\* rewritten with what remains (nothing) instead of being deleted.
handleOldImportPath_NoDelete(st, change, edits) ==
    LET node == st.node
    IN  IF ~getNamedImports(node) THEN edits
        ELSE IF HasElementNamed(node, change.typeName)
             THEN LET remainingTypes ==
                          SelectSeq(ElementNames(node), LAMBDA n : n # change.typeName)
                      typeKeyword == node.typeOnly \/ change.isTypeOnly
                      newImport == ImportStatement(typeKeyword, remainingTypes, node.spec)
                  IN  Append(edits, createEdit(st.start, st.end, StmtText(newImport)))
        ELSE edits

handleOldImportPath(st, change, edits) ==
    LET node == st.node
        elements == node.elements
    IN  IF ~getNamedImports(node) THEN edits
        ELSE IF Len(elements) = 1 /\ elements[1].name = change.typeName
             THEN Append(edits, createEdit(st.start, st.end, EmptyText))
        ELSE IF HasElementNamed(node, change.typeName)
             THEN LET remainingTypes ==
                          SelectSeq(ElementNames(node), LAMBDA n : n # change.typeName)
                      typeKeyword == node.typeOnly \/ change.isTypeOnly
                      newImport == ImportStatement(typeKeyword, remainingTypes, node.spec)
                  IN  Append(edits, createEdit(st.start, st.end, StmtText(newImport)))
        ELSE edits

\* handleNewImportPath without the sort: the type is appended to the list.
handleNewImportPath_Unsorted(st, change, edits) ==
    LET node == st.node
    IN  IF ~getNamedImports(node) THEN edits
        ELSE IF HasElementNamed(node, change.typeName) THEN edits
        ELSE LET existingTypes == Append(ElementNames(node), change.typeName)
                 shouldBeTypeOnly == node.typeOnly \/ change.isTypeOnly
                 newImport == ImportStatement(shouldBeTypeOnly, existingTypes, node.spec)
             IN  Append(edits, createEdit(st.start, st.end, StmtText(newImport)))

\* handleNewImportPath keeping the existing declaration's keyword only.
handleNewImportPath_ExistingKeyword(st, change, edits) ==
    LET node == st.node
    IN  IF ~getNamedImports(node) THEN edits
        ELSE IF HasElementNamed(node, change.typeName) THEN edits
        ELSE LET existingTypes == Append(ElementNames(node), change.typeName)
                 sortedTypes == SortNames(existingTypes)
                 newImport == ImportStatement(node.typeOnly, sortedTypes, node.spec)
             IN  Append(edits, createEdit(st.start, st.end, StmtText(newImport)))

handleNewImportPath(st, change, edits) ==
    LET node == st.node
    IN  IF ~getNamedImports(node) THEN edits
        ELSE IF HasElementNamed(node, change.typeName) THEN edits
        ELSE LET existingTypes == Append(ElementNames(node), change.typeName)
                 sortedTypes == SortNames(existingTypes)
                 shouldBeTypeOnly == node.typeOnly \/ change.isTypeOnly
                 newImport == ImportStatement(shouldBeTypeOnly, sortedTypes, node.spec)
             IN  Append(edits, createEdit(st.start, st.end, StmtText(newImport)))

addNewImport(lastImportPos, change, edits) ==
    LET importStatement ==
            ImportStatement(change.isTypeOnly, <<change.typeName>>, change.newImportPath)
        pos == lastImportPos.line + 1
    IN  Append(edits, ImportEdit(MkRange(Pos(pos, 0), Pos(pos, 0)), StmtLineText(importStatement)))

\* The callback of ts.forEachChild in calculateEditsForDocument, folded over
\* the statements: acc is [edits, hasExistingImport, lastImportPos].
VisitStatement(acc, st, change) ==
    IF st.node.kind # "import" THEN acc
    ELSE IF st.node.spec = change.oldImportPath
         THEN [edits |-> handleOldImportPath(st, change, acc.edits),
               hasExistingImport |-> acc.hasExistingImport,
               lastImportPos |-> st.end]
    ELSE IF st.node.spec = change.newImportPath
         THEN [edits |-> handleNewImportPath(st, change, acc.edits),
               hasExistingImport |-> TRUE,
               lastImportPos |-> st.end]
    ELSE [acc EXCEPT !.lastImportPos = st.end]

RECURSIVE VisitAll(_, _, _)
VisitAll(acc, sts, change) ==
    IF sts = <<>> THEN acc
    ELSE VisitAll(VisitStatement(acc, Head(sts), change), Tail(sts), change)

\* Array.prototype.sort((a, b) => b.range.start.line - a.range.start.line):
\* a stable sort on the start LINE alone, highest line first.
RECURSIVE InsertEdit(_, _)
InsertEdit(x, sorted) ==
    IF sorted = <<>> THEN <<x>>
    ELSE IF Head(sorted).range.start.line > x.range.start.line
         THEN <<Head(sorted)>> \o InsertEdit(x, Tail(sorted))
         ELSE <<x>> \o sorted

RECURSIVE SortEdits(_)
SortEdits(edits) ==
    IF edits = <<>> THEN <<>> ELSE InsertEdit(Head(edits), SortEdits(Tail(edits)))

ScanResult(doc, change) ==
    VisitAll([edits |-> <<>>, hasExistingImport |-> FALSE, lastImportPos |-> StartOfDocument],
             Statements(doc), change)

\* calculateEditsForDocument that synthesizes the import whether or not the
\* file already imports from the new path.
calculateEditsForDocument_AlwaysAdd(doc, change) ==
    LET scan == ScanResult(doc, change)
    IN  SortEdits(addNewImport(scan.lastImportPos, change, scan.edits))

calculateEditsForDocument(doc, change) ==
    LET scan == ScanResult(doc, change)
        editsToApply ==
            IF ~scan.hasExistingImport
            THEN addNewImport(scan.lastImportPos, change, scan.edits)
            ELSE scan.edits
    IN  SortEdits(editsToApply)


\* findExistingImportPath that stops at the first import binding the type.
RECURSIVE ExistingImportScan_FirstMatch(_, _, _)
ExistingImportScan_FirstMatch(result, sts, typeName) ==
    IF sts = <<>> THEN result
    ELSE LET node == Head(sts).node
         IN  IF node.kind = "import" /\ getNamedImports(node) /\ HasElementNamed(node, typeName)
             THEN [path |-> node.spec, isTypeOnly |-> node.typeOnly]
             ELSE ExistingImportScan_FirstMatch(result, Tail(sts), typeName)

findExistingImportPath_FirstMatch(doc, typeName) ==
    ExistingImportScan_FirstMatch([path |-> NoSpec, isTypeOnly |-> FALSE], Statements(doc), typeName)

\* findExistingImportPath: every named import that binds the type overwrites
\* the result, so the last one in the file is returned; '' when there is none.
RECURSIVE ExistingImportScan(_, _, _)
ExistingImportScan(result, sts, typeName) ==
    IF sts = <<>> THEN result
    ELSE LET node == Head(sts).node
             next == IF node.kind = "import" /\ getNamedImports(node)
                        /\ HasElementNamed(node, typeName)
                     THEN [path |-> node.spec, isTypeOnly |-> node.typeOnly]
                     ELSE result
         IN  ExistingImportScan(next, Tail(sts), typeName)

findExistingImportPath(doc, typeName) ==
    ExistingImportScan([path |-> NoSpec, isTypeOnly |-> FALSE], Statements(doc), typeName)

----------------------------------------------------------------------------
(* The editor's edit applier (vscode.workspace.applyEdit on the text edits  *)
(* of one file).  All ranges refer to the document as it was when the edit  *)
(* was submitted; positions beyond the text are clamped; a batch with       *)
(* overlapping ranges is refused as a whole.                                *)

validatePosition(doc, pos) ==
    IF pos.line >= LineCount(doc)
    THEN Pos(LineCount(doc) - 1, Len(LineAt(doc, LineCount(doc) - 1)))
    ELSE Pos(pos.line, Min(pos.character, Len(LineAt(doc, pos.line))))

validateRange(doc, range) ==
    MkRange(validatePosition(doc, range.start), validatePosition(doc, range.end))

PosBefore(p, q) == p.line < q.line \/ (p.line = q.line /\ p.character < q.character)

PosAtMost(p, q) == p = q \/ PosBefore(p, q)

IsEmptyRange(r) == r.start = r.end

\* Two ranges overlap when one starts strictly inside the other.
RangesOverlap(r1, r2) == PosBefore(r1.start, r2.end) /\ PosBefore(r2.start, r1.end)

HasOverlap(doc, edits) ==
    \E i, j \in 1..Len(edits) :
        /\ i < j
        /\ RangesOverlap(validateRange(doc, edits[i].range), validateRange(doc, edits[j].range))

\* The text of doc with range replaced by text.
ReplaceRange(doc, range, text) ==
    LET sl == range.start.line
        el == range.end.line
        pre == SubSeq(LineAt(doc, sl), 1, range.start.character)
        post == SubSeq(LineAt(doc, el), range.end.character + 1, Len(LineAt(doc, el)))
        n == Len(text)
        newLines ==
            IF n = 1 THEN << pre \o text[1] \o post >>
            ELSE << pre \o text[1] >> \o SubSeq(text, 2, n - 1) \o << text[n] \o post >>
    IN  SubSeq(doc, 1, sl) \o newLines \o SubSeq(doc, el + 2, Len(doc))

\* The edit to apply first: the one that starts last; of several starting at
\* one position, a replacement before an insertion, and the later insertion
\* before the earlier (insertions at one position keep their batch order).
AppliesBefore(edits, i, j) ==
    \/ PosBefore(edits[j].range.start, edits[i].range.start)
    \/ /\ edits[j].range.start = edits[i].range.start
       /\ \/ ~IsEmptyRange(edits[i].range) /\ IsEmptyRange(edits[j].range)
          \/ IsEmptyRange(edits[i].range) = IsEmptyRange(edits[j].range) /\ i >= j

LastStarting(edits) ==
    CHOOSE i \in 1..Len(edits) : \A j \in 1..Len(edits) : AppliesBefore(edits, i, j)

RemoveAt(s, i) == SubSeq(s, 1, i - 1) \o SubSeq(s, i + 1, Len(s))

\* Non-overlapping edits applied from the end of the document to its start,
\* so that every range still denotes the text it was computed for.
RECURSIVE ApplyValidated(_, _)
ApplyValidated(doc, edits) ==
    IF edits = <<>> THEN doc
    ELSE LET i == LastStarting(edits)
         IN  ApplyValidated(ReplaceRange(doc, edits[i].range, edits[i].newText),
                            RemoveAt(edits, i))

ApplyTextEdits(doc, edits) ==
    LET valid == [i \in 1..Len(edits) |->
                     ImportEdit(validateRange(doc, edits[i].range), edits[i].newText)]
    IN  ApplyValidated(doc, valid)


\* vscode.workspace.applyEdit for one file: the new document, or the old one
\* when the batch is refused.
CanApply(doc, edits) == ~HasOverlap(doc, edits)

----------------------------------------------------------------------------
(* What a document imports. *)

\* The import declarations whose named bindings bind name.
BindersOf(doc, name) ==
    SelectSeq(ImportDeclarations(doc),
              LAMBDA st : getNamedImports(st.node) /\ HasElementNamed(st.node, name))

Binds(doc, name, spec) ==
    \E i \in 1..Len(BindersOf(doc, name)) : BindersOf(doc, name)[i].node.spec = spec

----------------------------------------------------------------------------
(* The import rewriter on one referencing file: updateImports called with   *)
(* one ImportChange, and called again with the same change.                 *)

MaxImports == 2

SpecA == <<".", "/", "a">>

SpecC == <<".", "/", "c">>

SpecO == <<".", "/", "o">>

Specifiers == {SpecA, SpecC, SpecO}

MovedType == "Foo"

\* The shapes of import declaration the rewriter meets.
NamedShapes ==
    { NamedImport(s, t, names) :
        s \in {SpecA, SpecC}, t \in BOOLEAN,
        names \in { <<"Foo">>, <<"Bar">>, <<"Qux", "Foo", "Bar">> } }

OtherShapes ==
    { Import(s, FALSE, c[1], c[2], c[3]) :
        s \in {SpecA, SpecC},
        c \in { <<"named", "", <<Plain("Qux"), Plain("Bar")>> >>,
                <<"named", "Def", <<Plain("Bar")>> >>,
                <<"named", "", <<Aliased("Orig", "Bar")>> >>,
                <<"default", "Def", <<>> >>,
                <<"none", "", <<>> >> } }

UnrelatedShapes ==
    { NamedImport(SpecO, FALSE, <<"Bar">>), NamedImport(SpecO, TRUE, <<"Foo">>),
      Import(SpecO, FALSE, "namespace", "", <<>>) }

ImportShapes == NamedShapes \cup OtherShapes \cup UnrelatedShapes

ImportLists == UNION { [1..n -> ImportShapes] : n \in 0..MaxImports }

\* Two layouts of a list of imports: one import per line with the code below
\* them, and the whole file on one line without a final line break.
OnePerLine(imports) == [i \in 1..Len(imports) |-> <<imports[i]>>] \o << <<Code>>, <<>> >>

OnOneLine(imports) == << imports \o <<Code>> >>

RewriteDocs == { OnePerLine(l) : l \in ImportLists } \cup { OnOneLine(l) : l \in ImportLists }

RewriteChanges ==
    { ImportChange("file", old, SpecC, MovedType, t) : old \in {SpecA, SpecC}, t \in BOOLEAN }

\* The fixed values a specification gives the variables it does not use.
PathIdle ==
    /\ pphase = "idle"
    /\ presolver = NoConfig
    /\ pfrom = <<>>
    /\ pto = <<>>
    /\ palias = Undefined
    /\ pspec = <<>>
    /\ pnew = <<>>
    /\ pconfig = TsConfig(FALSE, FALSE, Undefined, FALSE, <<>>)
    /\ pimport = <<>>
    /\ ppreserve = FALSE

RewriteIdle ==
    /\ rphase = "idle"
    /\ rdoc = << <<>> >>
    /\ rbefore = << <<>> >>
    /\ rchange = ImportChange("file", <<>>, <<>>, "", FALSE)
    /\ redits = <<>>
    /\ rok = TRUE

RewriteInit ==
    /\ rphase = "start"
    /\ rdoc \in RewriteDocs
    /\ rbefore = rdoc
    /\ rchange \in RewriteChanges
    /\ redits = <<>>
    /\ rok = TRUE

\* One iteration of the loop of updateImports: the edits are computed from
\* the open document and submitted as one batch; the answer is not looked at.
UpdateImportsStep(applied) ==
    LET edits == calculateEditsForDocument(rdoc, rchange)
    IN  /\ applied => CanApply(rdoc, edits)
        /\ redits' = edits
        /\ rbefore' = rdoc
        /\ rok' = applied
        /\ rdoc' = IF applied THEN ApplyTextEdits(rdoc, edits) ELSE rdoc
        /\ UNCHANGED rchange

RewriteApplied ==
    /\ rphase \in {"start", "once"}
    /\ rphase' = IF rphase = "start" THEN "once" ELSE "twice"
    /\ UpdateImportsStep(TRUE)

RewriteRefused ==
    /\ rphase \in {"start", "once"}
    /\ rphase' = IF rphase = "start" THEN "once" ELSE "twice"
    /\ UpdateImportsStep(FALSE)



----------------------------------------------------------------------------
(* Claims about the rewrite of one file. *)

Ran == rphase # "start"

T == rchange.typeName

OldPath == rchange.oldImportPath

NewPath == rchange.newImportPath

\* The change is one calculateChanges builds for the file: its old path and
\* type-only flag are those findExistingImportPath reads from the document.
FromDocument ==
    /\ findExistingImportPath(rbefore, T).path = OldPath
    /\ findExistingImportPath(rbefore, T).isTypeOnly = rchange.isTypeOnly

IsSortedNames(names) == \A i \in 1..(Len(names) - 1) : ~NameLess(names[i + 1], names[i])

\* The statement an edit writes, for an edit that writes exactly one.
Written(e) == e.newText[1][1]

WritesOne(e) == Len(e.newText[1]) = 1

IsInsertion(e) == IsEmptyRange(e.range)

EditsAt(st) == SelectSeq(redits, LAMBDA e : e.range = MkRange(st.start, st.end))

\* C1 (as stated): after updateImports has processed an ImportChange with
\* oldSpecifier # newSpecifier, typeName is bound by exactly one import
\* declaration of the file, that one imports from newSpecifier, and no
\* declaration from oldSpecifier binds typeName.
C1_ExactlyOneBinder ==
    (Ran /\ rok /\ FromDocument /\ OldPath # NewPath) =>
        /\ Len(BindersOf(rdoc, T)) = 1
        /\ BindersOf(rdoc, T)[1].node.spec = NewPath
        /\ ~Binds(rdoc, T, OldPath)


\* The named imports of the document the batch was computed from that import
\* from the new path and do not bind the type.
MergeTargets ==
    SelectSeq(ImportDeclarations(rbefore),
              LAMBDA st : /\ st.node.spec = NewPath
                          /\ getNamedImports(st.node)
                          /\ ~HasElementNamed(st.node, T))

\* The edit for st replaces it by one import from the same specifier that
\* lists st's names and the type, in order.
IsMergeOf(e, st) ==
    /\ WritesOne(e) /\ Len(e.newText) = 1
    /\ Written(e).kind = "import"
    /\ getNamedImports(Written(e))
    /\ Written(e).spec = st.node.spec
    /\ Len(Written(e).elements) = Len(st.node.elements) + 1
    /\ Range(ElementNames(Written(e))) = Range(ElementNames(st.node)) \cup {T}
    /\ IsSortedNames(ElementNames(Written(e)))

MergedAll ==
    /\ \A i \in 1..Len(MergeTargets) :
          /\ Len(EditsAt(MergeTargets[i])) = 1
          /\ IsMergeOf(EditsAt(MergeTargets[i])[1], MergeTargets[i])
    /\ \A k \in 1..Len(redits) : ~IsInsertion(redits[k])

C3_TypeOnlyUnion ==
    Ran => \A i \in 1..Len(MergeTargets) :
              \A k \in 1..Len(EditsAt(MergeTargets[i])) :
                  LET e == EditsAt(MergeTargets[i])[k]
                  IN  (WritesOne(e) /\ HasElementNamed(Written(e), T)) =>
                          (Written(e).typeOnly <=>
                              (MergeTargets[i].node.typeOnly \/ rchange.isTypeOnly))

\* C3 witness: a regular import merged with a type-only change became
\* type-only.
C3_Witness ==
    /\ Ran /\ rchange.isTypeOnly
    /\ \E i \in 1..Len(MergeTargets) :
          /\ ~MergeTargets[i].node.typeOnly
          /\ Len(EditsAt(MergeTargets[i])) = 1
          /\ Written(EditsAt(MergeTargets[i])[1]).typeOnly
          /\ HasElementNamed(Written(EditsAt(MergeTargets[i])[1]), T)

\* The imports from the old path whose only named binding is the type.
SoleBinders ==
    SelectSeq(ImportDeclarations(rbefore),
              LAMBDA st : /\ st.node.spec = OldPath
                          /\ getNamedImports(st.node)
                          /\ ElementNames(st.node) = <<T>>)

SoleBindersDeleted ==
    /\ \A i \in 1..Len(SoleBinders) :
          /\ Len(EditsAt(SoleBinders[i])) = 1
          /\ EditsAt(SoleBinders[i])[1].newText = EmptyText
    /\ rok => ~Binds(rdoc, T, OldPath)

\* C4 (as stated): an import from oldSpecifier whose only named binding is
\* typeName is deleted over its full span, and no binding of typeName from
\* oldSpecifier remains in the file.
C4_SoleBindingAsStated == (Ran /\ FromDocument /\ Len(SoleBinders) > 0) => SoleBindersDeleted

\* C4 (amended): the same, for a change whose old and new paths differ.
C4_SoleBinding == (Ran /\ OldPath # NewPath /\ Len(SoleBinders) > 0) => SoleBindersDeleted

\* C4 witness: `import { Foo } from "./a"` was deleted and applied.
C4_Witness ==
    /\ Ran /\ rok /\ OldPath # NewPath /\ Len(SoleBinders) > 0
    /\ Binds(rbefore, T, OldPath) /\ ~Binds(rdoc, T, OldPath)

\* C5 (as stated): when the change is already reflected in the file (typeName
\* imported from newSpecifier and not from oldSpecifier) the rewrite produces
\* no edit for the file.
C5_Idempotent ==
    (Ran /\ Binds(rbefore, T, NewPath) /\ ~Binds(rbefore, T, OldPath)) => redits = <<>>


----------------------------------------------------------------------------
(* The path resolver as a pure function: a resolver is constructed from a   *)
(* configuration file, then asked for the specifier of pto seen from pfrom. *)

WorkspaceRoot == <<"/", "r">>

\* The value of the typeRefactor.tsconfig setting the tests use.
DefaultTsConfigSetting == Some(<<".", "/", "t", "s", "c", "o", "n", "f", "i", "g", ".", "j", "s", "o", "n">>)

AtSlashStar == <<"@", "/", "*">>

Star == <<"*">>

UtilsEntry == PathEntry(<<"@", "u", "t", "i", "l", "s", "/", "*">>, <<<<"u", "t", "i", "l", "s", "/", "*">>>>)

RootEntry == PathEntry(AtSlashStar, <<Star>>)

\* "@two/*": ["../src2/*"] and "@all/*": ["../*"], relative to the base
\* directory src: a sibling directory of src, and the workspace root.
SiblingEntry == PathEntry(<<"@", "t", "w", "o", "/", "*">>, <<<<".", ".", "/", "s", "r", "c", "2", "/", "*">>>>)

WorkspaceEntry == PathEntry(<<"@", "a", "l", "l", "/", "*">>, <<<<".", ".", "/", "*">>>>)

SrcBase == Some(<<".", "/", "s", "r", "c">>)

TsConfigs ==
    { TsConfig(FALSE, FALSE, Undefined, FALSE, <<>>),
      TsConfig(TRUE, TRUE, Undefined, FALSE, <<>>),
      TsConfig(TRUE, TRUE, SrcBase, TRUE, <<RootEntry, UtilsEntry>>),
      TsConfig(TRUE, FALSE, SrcBase, FALSE, <<>>),
      TsConfig(TRUE, FALSE, SrcBase, TRUE, <<>>),
      TsConfig(TRUE, FALSE, SrcBase, TRUE, <<RootEntry, UtilsEntry>>),
      TsConfig(TRUE, FALSE, SrcBase, TRUE, <<UtilsEntry, RootEntry>>),
      TsConfig(TRUE, FALSE, SrcBase, TRUE, <<UtilsEntry>>),
      TsConfig(TRUE, FALSE, SrcBase, TRUE, <<PathEntry(Star, <<Star>>)>>),
      TsConfig(TRUE, FALSE, SrcBase, TRUE, <<PathEntry(AtSlashStar, <<<<"l", "i", "b", "/", "*">>, Star>>)>>),
      TsConfig(TRUE, FALSE, Undefined, TRUE, <<PathEntry(AtSlashStar, <<<<"s", "r", "c", "/", "*">>>>)>>),
      TsConfig(TRUE, FALSE, SrcBase, TRUE, <<RootEntry, SiblingEntry, WorkspaceEntry>>) }

\* Import specifiers as they stand in an importing file.
ImportSpecifiers ==
    { <<"@", "/", "u", "t", "i", "l", "s", "/", "h", "e", "l", "p", "e", "r">>, <<"@", "u", "t", "i", "l", "s", "/", "f", "o", "r", "m", "a", "t">>, <<".", "/", "a">>, <<".", ".", "/", "a">>, <<"/", "r", "/", "s", "r", "c", "/", "a">>, <<"u", "t", "i", "l", "s", "/", "h", "e", "l", "p", "e", "r">> }

FromPaths ==
    { <<"/", "r", "/", "s", "r", "c", "/", "b", ".", "t", "s">>,
      <<"/", "r", "/", "s", "r", "c", "/", "s", "u", "b", "/", "d", ".", "t", "s">>,
      <<"/", "r", "/", "o", "u", "t", "s", "i", "d", "e", "/", "e", ".", "t", "s">>,
      <<"/", "r", "/", "s", "r", "c", "/", "u", "t", "i", "l", "s", "/", "u", ".", "t", "s">> }

ToPaths ==
    { <<"/", "r", "/", "s", "r", "c", "/", "c", ".", "t", "s">>,
      <<"/", "r", "/", "s", "r", "c", "/", "u", "t", "i", "l", "s", "/", "h", "e", "l", "p", "e", "r", ".", "t", "s">>,
      <<"/", "r", "/", "o", "u", "t", "s", "i", "d", "e", "/", "h", "e", "l", "p", "e", "r", ".", "t", "s">>,
      <<"/", "r", "/", "s", "r", "c", "2", "/", "f", ".", "t", "s">>,
      <<"/", "r", "/", "s", "r", "c", "/", ".", "t", "s">>,
      <<"/", "r", "/", "s", "r", "c", "/", ".", "h", "i", "d", "d", "e", "n", ".", "t", "s">>,
      <<"/", "r", "/", "s", "r", "c", "/", "s", "u", "b", "/", "g", ".", "t", "s", "x">> }

PathInit ==
    /\ pphase = "start"
    /\ pconfig \in TsConfigs
    /\ presolver = loadTsConfig(WorkspaceRoot, DefaultTsConfigSetting, pconfig)
    /\ pimport \in ImportSpecifiers
    /\ ppreserve = FALSE
    /\ pfrom \in FromPaths
    /\ pto \in ToPaths
    /\ palias = Undefined
    /\ pspec = <<>>
    /\ pnew = <<>>

ResolveStep ==
    /\ pphase = "start"
    /\ pphase' = "done"
    /\ palias' = tryMatchPathAlias(presolver, pto)
    /\ pspec' = resolveImportPath(presolver, pfrom, pto)
    /\ pnew' = newImportPathFor(presolver, pfrom, pto)
    /\ ppreserve' = shouldPreserveImportType(presolver, pimport, pfrom)
    /\ UNCHANGED <<presolver, pfrom, pto, pconfig, pimport>>


\* C8 (as stated): whenever tryMatchAlias(toPath) yields an alias,
\* resolveImportPath(fromPath, toPath) is exactly that alias for every
\* fromPath, and calculateChanges gives every referencing file that same
\* newSpecifier.
AliasEverywhere ==
    /\ pspec = palias.value
    /\ pnew = palias.value
    /\ \A f \in FromPaths :
          /\ resolveImportPath(presolver, f, pto) = palias.value
          /\ newImportPathFor(presolver, f, pto) = palias.value

----------------------------------------------------------------------------
(* The workspace and the moveType command.                                  *)

FileA == <<"/", "r", "/", "s", "r", "c", "/", "a", ".", "t", "s">>

FileB == <<"/", "r", "/", "s", "r", "c", "/", "b", ".", "t", "s">>

FileC == <<"/", "r", "/", "s", "r", "c", "/", "c", ".", "t", "s">>

FileD == <<"/", "r", "/", "s", "r", "c", "/", "s", "u", "b", "/", "d", ".", "t", "s">>

Files == {FileA, FileB, FileC, FileD}

\* The order in which the reference provider lists files.
FileOrder == <<FileA, FileB, FileC, FileD>>

File(doc) == [exists |-> TRUE, doc |-> doc]

NoFile == [exists |-> FALSE, doc |-> EmptyText]

NoEditor == <<>>

Message(kind, text) == [kind |-> kind, text |-> text]

NoMessage == Message("none", "")

\* TypeFinder.isTypeNode
isTypeNode(node) == node.kind = "decl"

TypeInfo(st) ==
    [some |-> TRUE, name |-> st.node.name, node |-> st.node, start |-> st.start, end |-> st.end]

NoType ==
    [some |-> FALSE, name |-> "", node |-> Code, start |-> StartOfDocument, end |-> StartOfDocument]

\* TypeFinder.findTypeAtSelection: every statement that spans the offset and
\* is a type declaration overwrites selectedNode, so the last one is returned.
findTypeAtSelection(doc, selection) ==
    LET spanning == SelectSeq(Statements(doc),
                        LAMBDA st : /\ PosAtMost(st.start, selection)
                                    /\ PosAtMost(selection, st.end)
                                    /\ isTypeNode(st.node))
    IN  IF spanning = <<>> THEN NoType ELSE TypeInfo(spanning[Len(spanning)])

\* TypeFinder.findTypeInFile: every type declaration with the name
\* overwrites foundNode and the traversal goes on, so the last one in
\* document order is returned.
findTypeInFile(doc, typeName) ==
    LET named == SelectSeq(Statements(doc),
                           LAMBDA st : isTypeNode(st.node) /\ st.node.name = typeName)
    IN  IF named = <<>> THEN NoType ELSE TypeInfo(named[Len(named)])

\* TypeAnalyzer.validateMove: the message, '' for undefined.
validateMove(files, typeInfo, destinationUri) ==
    IF ~files[destinationUri].exists THEN "Failed to validate move"
    ELSE IF \E i \in 1..Len(Statements(files[destinationUri].doc)) :
               LET node == Statements(files[destinationUri].doc)[i].node
               IN  isTypeNode(node) /\ node.name = typeInfo.name
         THEN "Type already exists in destination file"
         ELSE ""

\* validateInput of the input box: the message, '' for null.
validateInput(value) ==
    IF value = <<>> THEN "Path cannot be empty"
    ELSE IF ~EndsWith(value, <<".", "t", "s">>) /\ ~EndsWith(value, <<".", "t", "s", "x">>)
         THEN "File must have a .ts or .tsx extension"
         ELSE ""

\* String.prototype.trimEnd and trimStart on a text: a line holding no
\* statement is white space.
RECURSIVE trimEnd(_)
trimEnd(text) ==
    IF Len(text) > 1 /\ text[Len(text)] = <<>> THEN trimEnd(SubSeq(text, 1, Len(text) - 1))
    ELSE text

RECURSIVE trimStart(_)
trimStart(text) ==
    IF Len(text) > 1 /\ text[1] = <<>> THEN trimStart(Tail(text))
    ELSE text

\* s + t for two texts: the last line of s continues with the first of t.
TextConcat(s, t) ==
    SubSeq(s, 1, Len(s) - 1) \o << s[Len(s)] \o t[1] >> \o Tail(t)

TwoLineBreaks == << <<>>, <<>>, <<>> >>

\* calculateChanges without the test of oldImportPath: a change for every
\* reference, whether or not its document imports the type.
RECURSIVE calculateChanges_NoSkip(_, _, _, _, _)
calculateChanges_NoSkip(files, resolver, typeInfo, destPath, refs) ==
    IF refs = <<>> THEN <<>>
    ELSE LET refPath == Head(refs)
             found == findExistingImportPath(files[refPath].doc, typeInfo.name)
         IN  << ImportChange(refPath, found.path,
                             newImportPathFor(resolver, refPath, destPath),
                             typeInfo.name, found.isTypeOnly) >>
             \o calculateChanges_NoSkip(files, resolver, typeInfo, destPath, Tail(refs))

\* ImportManager.calculateChanges: one ImportChange for every reference
\* whose document has a named import of the type.
RECURSIVE calculateChanges(_, _, _, _, _)
calculateChanges(files, resolver, typeInfo, destPath, refs) ==
    IF refs = <<>> THEN <<>>
    ELSE LET refPath == Head(refs)
             found == findExistingImportPath(files[refPath].doc, typeInfo.name)
             rest == calculateChanges(files, resolver, typeInfo, destPath, Tail(refs))
         IN  IF found.path = <<>> THEN rest
             ELSE << ImportChange(refPath, found.path,
                                  newImportPathFor(resolver, refPath, destPath),
                                  typeInfo.name, found.isTypeOnly) >> \o rest

\* FileManager.createDestinationFile: the destination after the edit is applied.
\* The text of the destination once the edit of createDestinationFile is
\* applied: opened says whether openTextDocument succeeded (the try block)
\* or threw (the catch block: createFile with overwrite, then insert).
writeDestination(opened, existingContent, content) ==
    IF opened
    THEN LET newContent == TextConcat(TextConcat(trimEnd(existingContent), TwoLineBreaks),
                                      trimStart(content))
             last == LineCount(existingContent) - 1
             fullRange == MkRange(Pos(0, 0), Pos(last, Len(LineAt(existingContent, last))))
         IN  ApplyTextEdits(existingContent, <<ImportEdit(fullRange, newContent)>>)
    ELSE ApplyTextEdits(EmptyText, <<ImportEdit(MkRange(Pos(0, 0), Pos(0, 0)), content)>>)

createDestinationFile(files, destinationUri, content) ==
    File(writeDestination(files[destinationUri].exists, files[destinationUri].doc, content))

\* What the editor's services may answer.
ApplierAnswers == IF world = "nominal" THEN {TRUE} ELSE BOOLEAN

\* A batch with overlapping ranges is refused in every world.
EditAnswers(doc, edits) == IF CanApply(doc, edits) THEN ApplierAnswers ELSE {FALSE}

WorkspaceFolderAnswers == IF world = "nominal" THEN {TRUE} ELSE BOOLEAN

\* An import that names the type, as a binding or as the exported name of one.
RefersTo(doc, name) ==
    \E i \in 1..Len(ImportDeclarations(doc)) :
        \E j \in 1..Len(ImportDeclarations(doc)[i].node.elements) :
            \/ ImportDeclarations(doc)[i].node.elements[j].name = name
                 /\ ImportDeclarations(doc)[i].node.elements[j].prop = ""
            \/ ImportDeclarations(doc)[i].node.elements[j].prop = name

\* The locations the reference provider knows: the declaration, then every
\* other file that imports the type.
AccurateReferences ==
    <<document>> \o
    SelectSeq(FileOrder, LAMBDA f : f # document /\ fs[f].exists
                                    /\ RefersTo(fs[f].doc, selectedType.name))

Twice(list) == [i \in 1..(2 * Len(list)) |-> list[(i + 1) \div 2]]

ReferenceAnswers ==
    IF world = "nominal" THEN { Some(AccurateReferences) }
    ELSE { Undefined, Some(<<>>), Some(AccurateReferences), Some(Tail(AccurateReferences)),
           Some(Twice(AccurateReferences)) }

Selections(doc) ==
    UNION { { Pos(l, c) : c \in 0..Len(LineAt(doc, l)) } : l \in 0..(LineCount(doc) - 1) }

InputValues ==
    { Undefined, Some(<<>>), Some(<<"/", "r", "/", "s", "r", "c", "/", "c">>), Some(FileA), Some(FileC) }

Finish(msg) ==
    /\ pc' = "done"
    /\ message' = msg

\* moveType, lines 9-31: the editor, the type at the cursor, the workspace.
Invoke ==
    /\ pc = "idle"
    /\ \E editor \in {NoEditor} \cup {f \in Files : fs[f].exists} :
       \E folder \in WorkspaceFolderAnswers :
          IF editor = NoEditor
          THEN /\ Finish(Message("error", "No active editor"))
               /\ UNCHANGED <<document, selectedType>>
          ELSE \E selection \in Selections(fs[editor].doc) :
                  LET found == findTypeAtSelection(fs[editor].doc, selection)
                  IN  /\ document' = editor
                      /\ selectedType' = found
                      /\ IF ~found.some
                         THEN Finish(Message("error", "No type found at cursor position"))
                         ELSE IF ~folder
                         THEN Finish(Message("error", "No workspace folder found"))
                         ELSE pc' = "input" /\ UNCHANGED message
    /\ fs0' = fs
    /\ UNCHANGED <<world, tsconfig, fs, fsOrig, history, destinationPath, references,
                   changes, nextChange, applyLog>>

\* Lines 33-53: the input box closes with a value it accepts, or is cancelled.
InputBox ==
    /\ pc = "input"
    /\ \E value \in InputValues :
          /\ value.some => validateInput(value.value) = ""
          /\ IF ~Truthy(value)
             THEN Finish(NoMessage) /\ UNCHANGED destinationPath
             ELSE /\ destinationPath' = value.value
                  /\ pc' = "refs"
                  /\ UNCHANGED message
    /\ UNCHANGED <<world, tsconfig, fs, fs0, fsOrig, history, document, selectedType,
                   references, changes, nextChange, applyLog>>

\* Lines 63-73: the reference provider.
FindReferences ==
    /\ pc = "refs"
    /\ \E answer \in ReferenceAnswers :
          /\ references' = answer
          /\ IF ~answer.some
             THEN Finish(Message("error", "Could not find references"))
             ELSE pc' = "delete" /\ UNCHANGED message
    /\ UNCHANGED <<world, tsconfig, fs, fs0, fsOrig, history, document, selectedType,
                   destinationPath, changes, nextChange, applyLog>>

Submitted(step, uri, ok) == [step |-> step, uri |-> uri, ok |-> ok]

\* Lines 75-84: the declaration is deleted from the source document; the
\* applier's answer is not looked at.
DeleteDeclaration ==
    /\ pc = "delete"
    /\ \E applied \in ApplierAnswers :
          LET edit == ImportEdit(MkRange(selectedType.start, selectedType.end), EmptyText)
          IN  /\ fs' = IF applied
                       THEN [fs EXCEPT ![document] =
                                File(ApplyTextEdits(fs[document].doc, <<edit>>))]
                       ELSE fs
              /\ applyLog' = Append(applyLog, Submitted("source", document, applied))
    /\ pc' = "calc"
    /\ UNCHANGED <<world, tsconfig, fs0, fsOrig, history, document, selectedType,
                   destinationPath, references, changes, nextChange, message>>

\* Lines 57 and 86-92: a new ImportManager loads the configuration and
\* computes the changes.
CalculateChanges ==
    /\ pc = "calc"
    /\ changes' = calculateChanges(fs, loadTsConfig(WorkspaceRoot, DefaultTsConfigSetting, tsconfig),
                                   selectedType, destinationPath, references.value)
    /\ nextChange' = 1
    /\ pc' = "dest"
    /\ UNCHANGED <<world, tsconfig, fs, fs0, fsOrig, history, document, selectedType,
                   destinationPath, references, applyLog, message>>

\* Line 95: the declaration text is written to the destination.
CreateDestinationFile ==
    /\ pc = "dest"
    /\ \E applied \in ApplierAnswers :
          /\ fs' = IF applied
                   THEN [fs EXCEPT ![destinationPath] =
                            createDestinationFile(fs, destinationPath, StmtText(selectedType.node))]
                   ELSE fs
          /\ applyLog' = Append(applyLog, Submitted("destination", destinationPath, applied))
    /\ pc' = IF changes = <<>> THEN "save" ELSE "imports"
    /\ UNCHANGED <<world, tsconfig, fs0, fsOrig, history, document, selectedType,
                   destinationPath, references, changes, nextChange, message>>

\* Line 96, one iteration of the loop of updateImports.
UpdateImports ==
    /\ pc = "imports"
    /\ LET change == changes[nextChange]
           edits == calculateEditsForDocument(fs[change.uri].doc, change)
       IN  \E applied \in EditAnswers(fs[change.uri].doc, edits) :
              /\ fs' = IF applied
                       THEN [fs EXCEPT ![change.uri] =
                                File(ApplyTextEdits(fs[change.uri].doc, edits))]
                       ELSE fs
              /\ applyLog' = Append(applyLog, Submitted("imports", change.uri, applied))
    /\ nextChange' = nextChange + 1
    /\ pc' = IF nextChange = Len(changes) THEN "save" ELSE "imports"
    /\ UNCHANGED <<world, tsconfig, fs0, fsOrig, history, document, selectedType,
                   destinationPath, references, changes, message>>

\* Lines 98-112: the documents are opened and saved; a destination that
\* cannot be opened ends the run in the catch block.
SaveAll ==
    /\ pc = "save"
    /\ IF fs[destinationPath].exists
       THEN Finish(Message("information", "Type moved successfully"))
       ELSE Finish(Message("error", "Failed to move type"))
    /\ UNCHANGED <<world, tsconfig, fs, fs0, fsOrig, history, document, selectedType,
                   destinationPath, references, changes, nextChange, applyLog>>

\* The command is invoked again after a run has ended.
Run(type, source, destination, msg) ==
    [name |-> type.name, some |-> type.some, source |-> source,
     destination |-> destination, message |-> msg]

InvokeAgain ==
    /\ pc = "done"
    /\ history = <<>>
    /\ history' = <<Run(selectedType, document, destinationPath, message)>>
    /\ pc' = "idle"
    /\ document' = NoEditor
    /\ selectedType' = NoType
    /\ destinationPath' = <<>>
    /\ references' = Undefined
    /\ changes' = <<>>
    /\ nextChange' = 1
    /\ applyLog' = <<>>
    /\ message' = NoMessage
    /\ UNCHANGED <<world, tsconfig, fs, fs0, fsOrig>>

\* The workspaces the command starts from.
TheType == Decl(MovedType)

SpecAlias == <<"@", "/", "a">>

SpecUp == <<".", ".", "/", "a">>

SourceDocs == { << <<TheType>>, <<Code>> >> }

ImporterDocs ==
    { << <<NamedImport(SpecA, FALSE, <<"Foo">>)>>, <<Code>> >>,
      << <<NamedImport(SpecA, TRUE, <<"Foo">>)>>, <<Code>> >>,
      << <<NamedImport(SpecA, FALSE, <<"Bar", "Foo">>)>>, <<Code>> >>,
      << <<Import(SpecA, FALSE, "named", "Def", <<Plain("Foo")>>)>>, <<Code>> >>,
      << <<NamedImport(SpecA, FALSE, <<"Foo">>)>>, <<NamedImport(SpecC, FALSE, <<"Bar">>)>>, <<Code>> >>,
      << <<NamedImport(SpecAlias, FALSE, <<"Foo">>)>>, <<Code>> >>,
      << <<NamedImport(SpecA, FALSE, <<"Foo">>)>>, <<NamedImport(SpecAlias, TRUE, <<"Foo">>)>>, <<Code>> >>,
      << <<Code>> >> }

NestedImporters == { NoFile, File(<< <<NamedImport(SpecUp, FALSE, <<"Foo">>)>>, <<Code>> >>) }

DestinationFiles == { NoFile, File(<< <<Code>>, <<>> >>), File(<< <<TheType>> >>) }

Workspaces ==
    { [f \in Files |-> CASE f = FileA -> File(a)
                         [] f = FileB -> File(b)
                         [] f = FileC -> c
                         [] OTHER -> d] :
        a \in SourceDocs, b \in ImporterDocs, c \in DestinationFiles, d \in NestedImporters }

MoveTsConfigs ==
    { TsConfig(FALSE, FALSE, Undefined, FALSE, <<>>),
      TsConfig(TRUE, FALSE, Undefined, TRUE, <<PathEntry(AtSlashStar, <<<<"s", "r", "c", "/", "*">>>>)>>) }

MoveStart ==
    /\ tsconfig \in MoveTsConfigs
    /\ fs \in Workspaces
    /\ fs0 = fs
    /\ fsOrig = fs
    /\ history = <<>>
    /\ pc = "idle"
    /\ document = NoEditor
    /\ selectedType = NoType
    /\ destinationPath = <<>>
    /\ references = Undefined
    /\ changes = <<>>
    /\ nextChange = 1
    /\ applyLog = <<>>
    /\ message = NoMessage

MoveInit == world = "adverse" /\ MoveStart

TripInit == world = "nominal" /\ MoveStart

MoveIdle ==
    /\ world = "idle"
    /\ tsconfig = TsConfig(FALSE, FALSE, Undefined, FALSE, <<>>)
    /\ fs = [f \in Files |-> NoFile]
    /\ fs0 = fs
    /\ fsOrig = fs
    /\ history = <<>>
    /\ pc = "off"
    /\ document = NoEditor
    /\ selectedType = NoType
    /\ destinationPath = <<>>
    /\ references = Undefined
    /\ changes = <<>>
    /\ nextChange = 1
    /\ applyLog = <<>>
    /\ message = NoMessage

----------------------------------------------------------------------------
(* The file manager on one destination: createDestinationFile is called    *)
(* once with a content, and the editor applies its edit or refuses it.      *)

\* Destination files: none, and files with and without blank lines at
\* their ends.
DestFiles ==
    { NoFile,
      File(<< <<>> >>),
      File(<< <<Code>> >>),
      File(<< <<Code>>, <<>> >>),
      File(<< <<Code>>, <<>>, <<>> >>),
      File(<< <<>>, <<Code>>, <<>> >>),
      File(<< <<TheType>>, <<Code>> >>) }

\* Contents: the declaration, alone and with line breaks around it.
DestContents ==
    { << <<TheType>> >>,
      << <<>>, <<TheType>> >>,
      << <<TheType>>, <<>> >>,
      << <<>>, <<>>, <<TheType>>, <<>>, <<>> >>,
      << <<TheType>>, <<>>, <<Code>> >> }

\* openTextDocument throws for a file that does not exist, and may throw for
\* one that does (a file the editor cannot read as text).
OpenAnswers(file) == IF file.exists THEN BOOLEAN ELSE {FALSE}

DestIdle ==
    /\ dphase = "idle"
    /\ dfile = NoFile
    /\ dopens = FALSE
    /\ dcontent = EmptyText
    /\ dresult = NoFile

DestInit ==
    /\ dphase = "start"
    /\ dfile \in DestFiles
    /\ dopens \in OpenAnswers(dfile)
    /\ dcontent \in DestContents
    /\ dresult = dfile

WriteApplied ==
    /\ dphase = "start"
    /\ dphase' = "done"
    /\ dresult' = File(writeDestination(dopens, dfile.doc, dcontent))
    /\ UNCHANGED <<dfile, dopens, dcontent>>

WriteRefused ==
    /\ dphase = "start"
    /\ dphase' = "refused"
    /\ UNCHANGED <<dfile, dopens, dcontent, dresult>>

----------------------------------------------------------------------------
(* The type finder asked for a type by name.                                *)

MaxStatements == 3

FindStatements ==
    { Decl("Foo"), Decl("Bar"), Code, NamedImport(SpecA, FALSE, <<"Foo">>) }

FindDocs ==
    { [i \in 1..Len(l) |-> <<l[i]>>] \o << <<>> >> :
        l \in UNION { [1..n -> FindStatements] : n \in 0..MaxStatements } }

FindNames == {"Foo", "Bar", "Qux"}

FindIdle ==
    /\ tphase = "idle"
    /\ tdoc = EmptyText
    /\ tname = ""
    /\ tfound = NoType

FindInit ==
    /\ tphase = "start"
    /\ tdoc \in FindDocs
    /\ tname \in FindNames
    /\ tfound = NoType

FindTypeInFileStep ==
    /\ tphase = "start"
    /\ tphase' = "done"
    /\ tfound' = findTypeInFile(tdoc, tname)
    /\ UNCHANGED <<tdoc, tname>>

----------------------------------------------------------------------------
(* The specifications.  Each one starts the part of the program it is      *)
(* about and holds the variables of the other parts at fixed values.        *)

\* updateImports on one document, called twice with the same change.

RewriteOnly == UNCHANGED <<pvars, dvars, tvars, mvars>>

RewriteNext ==
    \/ RewriteApplied /\ RewriteOnly
    \/ RewriteRefused /\ RewriteOnly

SpecRewriteInit == RewriteInit /\ PathIdle /\ DestIdle /\ FindIdle /\ MoveIdle

SpecRewrite == SpecRewriteInit /\ [][RewriteNext]_vars

\* A path resolver is constructed and asked for one specifier.
PathNext == ResolveStep /\ UNCHANGED <<rvars, dvars, tvars, mvars>>

SpecPathInit == PathInit /\ RewriteIdle /\ DestIdle /\ FindIdle /\ MoveIdle

SpecPath == SpecPathInit /\ [][PathNext]_vars

\* The file manager writes one destination.
DestOnly == UNCHANGED <<rvars, pvars, tvars, mvars>>

DestNext ==
    \/ WriteApplied /\ DestOnly
    \/ WriteRefused /\ DestOnly

SpecDestInit == DestInit /\ RewriteIdle /\ PathIdle /\ FindIdle /\ MoveIdle

SpecDest == SpecDestInit /\ [][DestNext]_vars

\* The type finder is asked once.
FindNext == FindTypeInFileStep /\ UNCHANGED <<rvars, pvars, dvars, mvars>>

SpecFindInit == FindInit /\ RewriteIdle /\ PathIdle /\ DestIdle /\ MoveIdle

SpecFind == SpecFindInit /\ [][FindNext]_vars

MoveOnly == UNCHANGED <<rvars, pvars, dvars, tvars>>

\* One run of the command, in a world that may refuse.
Next ==
    \/ Invoke /\ MoveOnly
    \/ InputBox /\ MoveOnly
    \/ FindReferences /\ MoveOnly
    \/ DeleteDeclaration /\ MoveOnly
    \/ CalculateChanges /\ MoveOnly
    \/ CreateDestinationFile /\ MoveOnly
    \/ UpdateImports /\ MoveOnly
    \/ SaveAll /\ MoveOnly

Init == MoveInit /\ RewriteIdle /\ PathIdle /\ DestIdle /\ FindIdle

Spec == Init /\ [][Next]_vars

\* Two runs of the command, one after the other, in a world that does not.
TripNext ==
    \/ Next
    \/ InvokeAgain /\ MoveOnly

SpecTripInit == TripInit /\ RewriteIdle /\ PathIdle /\ DestIdle /\ FindIdle

SpecTrip == SpecTripInit /\ [][TripNext]_vars

----------------------------------------------------------------------------
(* Claims about the moveType command. *)

Done == pc = "done"

ReportedSuccess == Done /\ message.kind = "information"

ReportedError == Done /\ message.kind = "error"

AllApplied == \A i \in 1..Len(applyLog) : applyLog[i].ok

SomeRefused == \E i \in 1..Len(applyLog) : ~applyLog[i].ok

Declares(file, name) ==
    /\ file.exists
    /\ \E i \in 1..Len(Statements(file.doc)) :
          /\ isTypeNode(Statements(file.doc)[i].node)
          /\ Statements(file.doc)[i].node.name = name

\* The (specifier, binding) pairs of a document's imports, one entry for
\* every binding: the default import and the named bindings under their
\* local names.
BindingsOfImport(node) ==
    (IF node.default = "" THEN <<>> ELSE << <<node.spec, node.default>> >>) \o
    [i \in 1..Len(node.elements) |-> <<node.spec, node.elements[i].name>>]

ImportBindings(doc) ==
    Flatten([i \in 1..Len(ImportDeclarations(doc)) |->
                BindingsOfImport(ImportDeclarations(doc)[i].node)])

ImportPairs(doc) == Range(ImportBindings(doc))

\* The second run moved the type of the first run back to where it was, and
\* both runs reported success.
MovedThereAndBack ==
    /\ ReportedSuccess
    /\ Len(history) = 1
    /\ history[1].message.kind = "information"
    /\ history[1].name = selectedType.name
    /\ history[1].source = destinationPath
    /\ history[1].destination = document
    /\ document # destinationPath

\* C6: after a type is moved from file A to file B and back from B to A,
\* every referencing file has the same set of (specifier, binding) import
\* pairs as before the first move, none of them twice.
C6_RoundTrip ==
    MovedThereAndBack =>
        \A f \in Files \ {document, destinationPath} :
            /\ fs[f].exists = fsOrig[f].exists
            /\ ImportPairs(fs[f].doc) = ImportPairs(fsOrig[f].doc)
            /\ Len(ImportBindings(fs[f].doc)) = Cardinality(ImportPairs(fs[f].doc))

\* The scenario of C7: no aliases, a.ts declares Foo, b.ts is
\* `import { Foo } from "./a";`, c.ts does not exist; Foo is moved to c.ts,
\* the reference provider lists b.ts and every edit is applied.
MoveScenario ==
    /\ Done
    /\ ~tsconfig.exists
    /\ document = FileA
    /\ selectedType.some /\ selectedType.name = MovedType
    /\ destinationPath = FileC
    /\ ~fs0[FileC].exists
    /\ fs0[FileB].doc = << <<NamedImport(SpecA, FALSE, <<MovedType>>)>>, <<Code>> >>
    /\ references.some
    /\ \E i \in 1..Len(references.value) : references.value[i] = FileB
    /\ Len(applyLog) >= 3
    /\ AllApplied

\* C7: the scenario ends with a.ts without the declaration, c.ts created
\* with exactly the declaration text, and b.ts importing Foo from "./c"
\* (no extension) and no longer from "./a".
C7_MoveScenario ==
    MoveScenario =>
        /\ ~Declares(fs[FileA], MovedType)
        /\ fs[FileC] = File(StmtText(TheType))
        /\ Binds(fs[FileB].doc, MovedType, SpecC)
        /\ ~Binds(fs[FileB].doc, MovedType, SpecA)

\* The destination of the running move already declares the type.
NameConflict ==
    /\ selectedType.some
    /\ destinationPath \in Files
    /\ destinationPath # document
    /\ validateMove(fs0, selectedType, destinationPath) = "Type already exists in destination file"

\* C9: when the destination already declares a type with the moved name, no
\* edit is applied to any file and the run ends by reporting an error.
C9_ConflictAborts ==
    NameConflict => (fs = fs0 /\ (Done => message.kind = "error"))

\* C10: a run in which the edit applier refused a transaction ends by
\* reporting an error, never success.
C10_EditFailureSurfaced ==
    (Done /\ SomeRefused) => message.kind = "error"

----------------------------------------------------------------------------
(* Claims about the reference search. *)

\* ReferenceAnalyzer.findReferences: what the provider answered, or [].
findReferences(answer) == IF answer.some THEN answer.value ELSE <<>>

\* The running command asked the reference provider and got nothing: no
\* result, or an empty list.
ReferenceSearchEmpty ==
    /\ destinationPath \in Files
    /\ pc \notin {"idle", "input", "refs"}
    /\ findReferences(references) = <<>>

DeclarationEdit == ImportEdit(MkRange(selectedType.start, selectedType.end), EmptyText)

\* C11: when the reference search returns nothing (no result or an empty
\* list) the run is not a failure: it submits the deletion from the source
\* and the write to the destination, submits no import edit, and when both
\* are applied to different files the declaration has left the source and
\* is in the destination.
C11_ZeroReferences ==
    (Done /\ ReferenceSearchEmpty) =>
        /\ message.text # "Could not find references"
        /\ Len(applyLog) = 2
        /\ applyLog[1].step = "source"
        /\ applyLog[2].step = "destination"
        /\ (AllApplied /\ document # destinationPath) =>
              /\ fs[document].doc = ApplyTextEdits(fs0[document].doc, <<DeclarationEdit>>)
              /\ fs[destinationPath] =
                    createDestinationFile(fs0, destinationPath, StmtText(selectedType.node))
              /\ \A f \in Files \ {document, destinationPath} : fs[f] = fs0[f]

----------------------------------------------------------------------------
(* Claims about the configuration and the alias patterns. *)

ConfigFailed == ~pconfig.exists \/ pconfig.error

\* A specifier that names target relative to the directory of importer.
IsRelativeTo(specifier, importer, target) ==
    /\ StartsWith(specifier, <<".">>)
    /\ pathResolve(pathDirname(importer), specifier) = target

\* C12: when the configuration file is missing or reports an error, the
\* resolver is constructed without aliases, tryMatchPathAlias returns
\* undefined for every path, and resolveImportPath returns the path relative
\* to the importer.
C12_ConfigFailureDegrades ==
    (pphase = "done" /\ ConfigFailed) =>
        /\ presolver = NoConfig
        /\ palias = Undefined
        /\ \A t \in ToPaths : tryMatchPathAlias(presolver, t) = Undefined
        /\ IsRelativeTo(pspec, pfrom, pto)
        /\ \A f \in FromPaths, t \in ToPaths :
              IsRelativeTo(resolveImportPath(presolver, f, t), f, t)

\* C12 witness: a configuration file that declares aliases but reports an
\* error, and a target that the aliases would cover.
C12_Witness ==
    /\ pphase = "done"
    /\ pconfig.exists /\ pconfig.error /\ pconfig.paths # <<>>
    /\ pto = <<"/", "r", "/", "s", "r", "c", "/", "u", "t", "i", "l", "s", "/", "h", "e", "l", "p", "e", "r", ".", "t", "s">>
    /\ pfrom = <<"/", "r", "/", "s", "r", "c", "/", "b", ".", "t", "s">>
    /\ palias = Undefined
    /\ pspec = <<".", "/", "u", "t", "i", "l", "s", "/", "h", "e", "l", "p", "e", "r", ".", "t", "s">>

----------------------------------------------------------------------------
(* Further claims about the rewrite of one file. *)

\* The import declarations without named bindings: no import clause, a
\* default import only, or a namespace import.
Malformed ==
    SelectSeq(ImportDeclarations(rbefore), LAMBDA st : ~getNamedImports(st.node))

NamedFromNewPath ==
    SelectSeq(ImportDeclarations(rbefore),
              LAMBDA st : st.node.spec = NewPath /\ getNamedImports(st.node))

\* The batch holds an insertion of `import { T } from "newImportPath"`.
SynthesizesImport ==
    \E k \in 1..Len(redits) :
        /\ IsInsertion(redits[k])
        /\ Written(redits[k]).kind = "import"
        /\ Written(redits[k]).spec = NewPath
        /\ ElementNames(Written(redits[k])) = <<T>>

\* C13: in a file that holds import declarations without named bindings,
\* whatever their specifier, and no named import from newSpecifier, the
\* batch has no edit for those declarations and holds a newly synthesized
\* import of typeName from newSpecifier.
C13_MalformedSkipped ==
    (Ran /\ FromDocument /\ Len(Malformed) > 0 /\ Len(NamedFromNewPath) = 0) =>
        /\ \A i \in 1..Len(Malformed) : EditsAt(Malformed[i]) = <<>>
        /\ SynthesizesImport

----------------------------------------------------------------------------
(* Claims about shouldPreserveImportType and the order of the patterns. *)

\* The configured alias patterns with their wildcards removed.
AliasPrefixes ==
    IF presolver.hasPaths
    THEN { RemoveStars(presolver.paths[i].pattern) : i \in 1..Len(presolver.paths) }
    ELSE {}

IsRelativeOrAbsolute(specifier) ==
    StartsWith(specifier, <<".">>) \/ StartsWith(specifier, <<"/">>)

PreservesIffAliasPrefix ==
    ppreserve <=> (\E prefix \in AliasPrefixes : StartsWith(pimport, prefix))

\* C14 (as stated): shouldPreserveImportType(specifier) is true exactly when
\* the specifier begins with a configured alias pattern with its wildcard
\* removed; it is false for relative and absolute paths and false when no
\* path map is configured.
C14_PreserveAsStated ==
    pphase = "done" =>
        /\ PreservesIffAliasPrefix
        /\ IsRelativeOrAbsolute(pimport) => ~ppreserve
        /\ ~presolver.hasPaths => ~ppreserve

\* C14 (amended): the same, where a relative or absolute path is answered
\* false when no configured pattern, wildcard removed, is a prefix of it.
C14_Preserve ==
    pphase = "done" =>
        /\ PreservesIffAliasPrefix
        /\ (IsRelativeOrAbsolute(pimport)
              /\ \A prefix \in AliasPrefixes : ~StartsWith(pimport, prefix)) => ~ppreserve
        /\ ~presolver.hasPaths => ~ppreserve

\* C14 witness: with the patterns "@utils/*" and "@/*" configured, in this
\* order, "@/utils/helper" is answered true because of the second pattern.
C14_Witness ==
    /\ pphase = "done"
    /\ presolver.hasPaths
    /\ presolver.paths = <<UtilsEntry, RootEntry>>
    /\ pimport = <<"@", "/", "u", "t", "i", "l", "s", "/", "h", "e", "l", "p", "e", "r">>
    /\ ppreserve

----------------------------------------------------------------------------
(* Claims about the synthesized import and the order of the batch. *)

NoImportFromNewPath ==
    \A i \in 1..Len(ImportDeclarations(rbefore)) :
        ImportDeclarations(rbefore)[i].node.spec # NewPath

Insertions == SelectSeq(redits, IsInsertion)

\* The start of the line below the last import declaration of the document
\* the batch was computed from, and the top of the file when it has none.
StatedInsertionPoint ==
    LET imports == ImportDeclarations(rbefore)
    IN  IF imports = <<>> THEN StartOfDocument
        ELSE Pos(imports[Len(imports)].end.line + 1, 0)

IsSynthesizedImport(e) ==
    e.newText = StmtLineText(ImportStatement(rchange.isTypeOnly, <<T>>, NewPath))

\* C15 (as stated): when no import declaration of the file has specifier
\* newSpecifier, exactly one new import statement, type-only iff the change
\* is, is inserted at the start of the line directly below the last import
\* declaration, and at the top of the file when the file has no imports.
C15_Placement ==
    (Ran /\ NoImportFromNewPath) =>
        /\ Len(Insertions) = 1
        /\ IsSynthesizedImport(Insertions[1])
        /\ Insertions[1].range.start = StatedInsertionPoint

\* The same for files that have at least one import declaration.
C15_PlacementBelowImports ==
    (Ran /\ NoImportFromNewPath /\ ImportDeclarations(rbefore) # <<>>) =>
        /\ Len(Insertions) = 1
        /\ IsSynthesizedImport(Insertions[1])
        /\ Insertions[1].range.start = StatedInsertionPoint

\* The batch is in non-increasing order of start position.
DescendingByStart(edits) ==
    \A i \in 1..Len(edits) : \A j \in (i + 1)..Len(edits) :
        ~PosBefore(edits[i].range.start, edits[j].range.start)

\* The batch is in non-increasing order of start line.
DescendingByLine(edits) ==
    \A i \in 1..Len(edits) : \A j \in (i + 1)..Len(edits) :
        edits[i].range.start.line >= edits[j].range.start.line

\* C16 (as stated): the edits computed for one file are submitted in
\* non-increasing order of start offset, edits that start on the same line
\* included, as one batch.
C16_DescendingOffsets == Ran => DescendingByStart(redits)

\* The same with edits compared by their start line only.
C16_DescendingLines == Ran => DescendingByLine(redits)

----------------------------------------------------------------------------
(* Claims about the order in which the alias patterns are tried. *)

ResolverUsable == presolver.hasPaths /\ Truthy(presolver.baseUrl) /\ Truthy(presolver.configDir)

\* The directory the first target template of an entry stands for.
TargetDir(entry) ==
    pathResolve(pathResolve(presolver.configDir.value, presolver.baseUrl.value),
                StripTrailingStar(entry.targets[1]))

\* The alias built from an entry for a file.
AliasFrom(entry, file) ==
    StripSourceExtension(StripTrailingStar(entry.pattern) \o pathRelative(TargetDir(entry), file))

\* The directory is an ancestor of the file.
IsInside(dir, file) == dir = <<"/">> \/ StartsWith(file, dir \o <<"/">>)

\* The patterns, by position in the path map, whose target directory holds
\* the file.
Containing == { i \in 1..Len(presolver.paths) : IsInside(TargetDir(presolver.paths[i]), pto) }

FirstContaining == CHOOSE i \in Containing : \A j \in Containing : i <= j

\* C17 (as stated): when the file lies under the target directories of
\* several alias patterns, tryMatchPathAlias returns the alias built from the
\* one that comes first in the path map, using its first target template.
C17_FirstMatchWins ==
    (pphase = "done" /\ ResolverUsable /\ Cardinality(Containing) >= 2) =>
        palias = Some(AliasFrom(presolver.paths[FirstContaining], pto))

\* The same when no earlier pattern's target directory is a mere string
\* prefix of the file's path.
C17_FirstMatchWinsNoStrayPrefix ==
    (/\ pphase = "done" /\ ResolverUsable /\ Cardinality(Containing) >= 2
     /\ \A j \in 1..(FirstContaining - 1) :
           ~StartsWith(pto, TargetDir(presolver.paths[j]))) =>
        palias = Some(AliasFrom(presolver.paths[FirstContaining], pto))

\* The order decides: /r/src/utils/helper.ts is "@/utils/helper" when "@/*"
\* comes first and "@utils/helper" when "@utils/*" comes first.
C17_OrderDecides ==
    (pphase = "done" /\ ResolverUsable /\ pto = <<"/", "r", "/", "s", "r", "c", "/", "u", "t", "i", "l", "s", "/", "h", "e", "l", "p", "e", "r", ".", "t", "s">>) =>
        /\ presolver.paths = <<RootEntry, UtilsEntry>> => palias = Some(<<"@", "/", "u", "t", "i", "l", "s", "/", "h", "e", "l", "p", "e", "r">>)
        /\ presolver.paths = <<UtilsEntry, RootEntry>> => palias = Some(<<"@", "u", "t", "i", "l", "s", "/", "h", "e", "l", "p", "e", "r">>)

----------------------------------------------------------------------------
(* Claims about the import the changes are computed from. *)

\* What findExistingImportPath is to return for a document: the specifier
\* and flag of the last named import binding the name, '' and false when
\* there is none.
LastBinderOf(doc, name) ==
    LET binders == BindersOf(doc, name)
    IN  IF binders = <<>> THEN [path |-> NoSpec, isTypeOnly |-> FALSE]
        ELSE [path |-> binders[Len(binders)].node.spec,
              isTypeOnly |-> binders[Len(binders)].node.typeOnly]

ChangesComputed == pc = "dest"

\* C18: when several import declarations with named bindings bind typeName,
\* findExistingImportPath returns the specifier and type-only flag of the
\* last of them in file order, and the empty specifier with isTypeOnly false
\* when none does; the changes calculateChanges builds carry these values.
C18_LastMatchWins ==
    ChangesComputed =>
        /\ \A f \in Files :
              fs[f].exists =>
                  findExistingImportPath(fs[f].doc, selectedType.name)
                      = LastBinderOf(fs[f].doc, selectedType.name)
        /\ \A i \in 1..Len(changes) :
              /\ changes[i].oldImportPath = LastBinderOf(fs[changes[i].uri].doc, selectedType.name).path
              /\ changes[i].isTypeOnly = LastBinderOf(fs[changes[i].uri].doc, selectedType.name).isTypeOnly

\* C18 witness: b.ts imports Foo from "./a" and then, type-only, from "@/a";
\* its change has the old path "@/a" and is type-only, and a file that does
\* not bind Foo is among the files scanned.
C18_Witness ==
    /\ ChangesComputed
    /\ Len(BindersOf(fs[FileB].doc, selectedType.name)) = 2
    /\ BindersOf(fs[FileB].doc, selectedType.name)[1].node.spec = SpecA
    /\ \E i \in 1..Len(changes) :
          /\ changes[i].uri = FileB
          /\ changes[i].oldImportPath = SpecAlias
          /\ changes[i].isTypeOnly
    /\ \E f \in Files : fs[f].exists /\ BindersOf(fs[f].doc, selectedType.name) = <<>>

----------------------------------------------------------------------------
(* Claims about the partial removal of the type from an import. *)

\* The named imports from the old path that bind the type together with
\* other names.
PartialBinders ==
    SelectSeq(ImportDeclarations(rbefore),
              LAMBDA st : /\ st.node.spec = OldPath
                          /\ getNamedImports(st.node)
                          /\ HasElementNamed(st.node, T)
                          /\ ElementNames(st.node) # <<T>>)

OtherNames(node) == SelectSeq(ElementNames(node), LAMBDA n : n # T)

\* The one edit for st replaces it by an import from the same specifier.
ReplacedBySameSpecifier(st) ==
    /\ Len(EditsAt(st)) = 1
    /\ WritesOne(EditsAt(st)[1]) /\ Len(EditsAt(st)[1].newText) = 1
    /\ Written(EditsAt(st)[1]).kind = "import"
    /\ Written(EditsAt(st)[1]).spec = st.node.spec

Replacement(st) == Written(EditsAt(st)[1])

\* C19 (as stated): an import from oldSpecifier that binds typeName together
\* with other names is replaced by an import from the same specifier listing
\* exactly the other names, each once, in alphabetical order.
C19_RemainderSorted ==
    Ran => \A i \in 1..Len(PartialBinders) :
              /\ ReplacedBySameSpecifier(PartialBinders[i])
              /\ ElementNames(Replacement(PartialBinders[i]))
                    = SortNames(OtherNames(PartialBinders[i].node))

\* The same with the other names in the order of the original declaration.
C19_RemainderInDeclarationOrder ==
    Ran => \A i \in 1..Len(PartialBinders) :
              /\ ReplacedBySameSpecifier(PartialBinders[i])
              /\ ElementNames(Replacement(PartialBinders[i]))
                    = OtherNames(PartialBinders[i].node)

\* C20 (as stated): the replacement written for an oldSpecifier declaration
\* that keeps other bindings is type-only if and only if the original
\* declaration was type-only, whatever the change's isTypeOnly.
C20_KeywordKept ==
    Ran => \A i \in 1..Len(PartialBinders) :
              /\ ReplacedBySameSpecifier(PartialBinders[i])
              /\ Replacement(PartialBinders[i]).typeOnly <=> PartialBinders[i].node.typeOnly

\* The same for the changes calculateChanges builds from the file.
C20_KeywordKeptFromDocument ==
    (Ran /\ FromDocument) => \A i \in 1..Len(PartialBinders) :
              /\ ReplacedBySameSpecifier(PartialBinders[i])
              /\ Replacement(PartialBinders[i]).typeOnly <=> PartialBinders[i].node.typeOnly

\* The keyword the code writes: the original's or the change's.
C20_KeywordIsUnion ==
    Ran => \A i \in 1..Len(PartialBinders) :
              /\ ReplacedBySameSpecifier(PartialBinders[i])
              /\ Replacement(PartialBinders[i]).typeOnly
                    <=> (PartialBinders[i].node.typeOnly \/ rchange.isTypeOnly)

----------------------------------------------------------------------------
(* Claims about the set of changes and the loop over them. *)

ChangesFor(f) == SelectSeq(changes, LAMBDA c : c.uri = f)

ReferencedFiles == Range(references.value)

\* The specifier under which a document imports the name.
ImportsUnder(doc, name, spec) == Binds(doc, name, spec)

OnePerImportingFile ==
    \A f \in Files :
        /\ Len(ChangesFor(f)) <= 1
        /\ (f \in ReferencedFiles /\ BindersOf(fs[f].doc, selectedType.name) # <<>>)
              => Len(ChangesFor(f)) = 1
        /\ \A i \in 1..Len(ChangesFor(f)) :
              ImportsUnder(fs[f].doc, selectedType.name, ChangesFor(f)[i].oldImportPath)

\* C21 (as stated): for any reference list, calculateChanges returns at most
\* one ImportChange per referencing file, exactly one for each file with a
\* named import of typeName, and each oldSpecifier is the specifier under
\* which that file imports typeName.
C21_OneChangePerFile == ChangesComputed => OnePerImportingFile

NoFileTwice(list) == \A i, j \in 1..Len(list) : list[i] = list[j] => i = j

\* The same for reference lists that name every file once.
C21_OneChangePerLocation ==
    (ChangesComputed /\ NoFileTwice(references.value)) => OnePerImportingFile

ImportSubmissions == SelectSeq(applyLog, LAMBDA s : s.step = "imports")

\* C22 (as stated): the referencing files are rewritten one after another;
\* when the edit for the k-th file fails, the files before it keep their
\* applied edits and no edit is submitted for the files after it.
C22_StopsAtFirstFailure ==
    \A i \in 1..Len(ImportSubmissions) : \A j \in (i + 1)..Len(ImportSubmissions) :
        ImportSubmissions[j].uri # ImportSubmissions[i].uri => ImportSubmissions[i].ok

\* One step of the loop touches the file of its change and no other, so
\* what was applied to earlier files stays.
C22_NoRollback ==
    [][pc = "imports" => \A f \in Files : f # changes[nextChange].uri => fs'[f] = fs[f]]_vars

----------------------------------------------------------------------------
(* Claims about the write to the destination. *)

\* String.prototype.trim on a text.
trimBoth(text) == trimEnd(trimStart(text))

Appended(old, content) == TextConcat(TextConcat(trimEnd(old), TwoLineBreaks), content)

\* C23 (as stated): if the destination can be opened its new content is the
\* old content without trailing white space, two line breaks, and the
\* declaration text trimmed at both ends; the destination is created, and
\* any content overwritten, only if it does not exist, and then it holds
\* exactly the declaration text.
C23_AppendOrCreate ==
    dphase = "done" =>
        IF dopens
        THEN dresult = File(Appended(dfile.doc, trimBoth(dcontent)))
        ELSE ~dfile.exists /\ dresult = File(dcontent)

\* What the code writes: the content trimmed at its start only, and a new
\* file whenever the destination could not be opened.
C23_AppendTrimStartOrOverwrite ==
    dphase = "done" =>
        IF dopens
        THEN dresult = File(Appended(dfile.doc, trimStart(dcontent)))
        ELSE dresult = File(dcontent)

\* The first half of C23 for contents without white space at their end.
C23_AppendTrimmedContent ==
    (dphase = "done" /\ dopens /\ trimEnd(dcontent) = dcontent) =>
        dresult = File(Appended(dfile.doc, trimBoth(dcontent)))

----------------------------------------------------------------------------
(* Claims about the search for a type by name. *)

DeclarationsNamed(doc, name) ==
    SelectSeq(Statements(doc), LAMBDA st : st.node.kind = "decl" /\ st.node.name = name)

\* C24 (as stated): findByName returns the first declaration, in document
\* order, of kind type alias, interface or enum whose name equals the
\* requested name, also when the file has several of them, and none when
\* there is no such declaration.
C24_FirstByName ==
    tphase = "done" =>
        IF DeclarationsNamed(tdoc, tname) = <<>> THEN ~tfound.some
        ELSE /\ tfound.some
             /\ tfound.name = tname
             /\ tfound.start = DeclarationsNamed(tdoc, tname)[1].start

\* The same with the last declaration of that name.
C24_LastByName ==
    tphase = "done" =>
        IF DeclarationsNamed(tdoc, tname) = <<>> THEN ~tfound.some
        ELSE /\ tfound.some
             /\ tfound.name = tname
             /\ tfound.start = DeclarationsNamed(tdoc, tname)[Len(DeclarationsNamed(tdoc, tname))].start

----------------------------------------------------------------------------
(* Claims about the alias match and the relative fallback. *)

\* The patterns whose target directory is a string prefix of the file's path.
PrefixMatching ==
    { i \in 1..Len(presolver.paths) : StartsWith(pto, TargetDir(presolver.paths[i])) }

AliasBuiltFrom(candidates) ==
    IF ~ResolverUsable \/ candidates = {} THEN ~palias.some
    ELSE \E i \in candidates : palias = Some(AliasFrom(presolver.paths[i], pto))

\* C25 (as stated): tryMatchPathAlias returns an alias for a pattern only
\* when the pattern's target directory is an ancestor of the file; the alias
\* is the pattern prefix followed by the file's path relative to that
\* directory without a trailing .ts, .tsx or .vue; the result is none when
\* no pattern's directory contains the file.
C25_InsideTargetDirectory ==
    pphase = "done" => AliasBuiltFrom(IF ResolverUsable THEN Containing ELSE {})

\* The same with "the directory's path is a string prefix of the file's path"
\* in place of "the directory is an ancestor of the file".
C25_PrefixOfPath ==
    pphase = "done" => AliasBuiltFrom(IF ResolverUsable THEN PrefixMatching ELSE {})

IsNormalizedRelative(specifier) ==
    StartsWith(specifier, <<".", "/">>) \/ StartsWith(specifier, <<".", ".", "/">>)

FileNameStartsWithDot(path) ==
    \E i \in 1..(Len(path) - 1) :
        /\ path[i] = "/" /\ path[i + 1] = "."
        /\ \A j \in (i + 1)..Len(path) : path[j] # "/"

\* C26 (as stated): whenever no alias matches toPath, the specifier
\* resolveImportPath(fromPath, toPath) returns begins with "./" or "../",
\* for every pair of paths.
C26_RelativeNormalized ==
    (pphase = "done" /\ ~Truthy(palias)) => IsNormalizedRelative(pspec)

\* The same for targets whose file name does not start with a dot.
C26_RelativeNormalizedPlainNames ==
    (pphase = "done" /\ ~Truthy(palias) /\ ~FileNameStartsWithDot(pto)) =>
        IsNormalizedRelative(pspec)

----------------------------------------------------------------------------
(* Claims about what a rewrite leaves alone. *)

\* What an import declaration provides: each local name with the exported
\* name it stands for.
Provides(node) ==
    (IF node.default = "" THEN {} ELSE {[local |-> node.default, exported |-> "default"]})
    \cup { [local |-> node.elements[i].name,
            exported |-> IF node.elements[i].prop = "" THEN node.elements[i].name
                         ELSE node.elements[i].prop] : i \in 1..Len(node.elements) }

\* What the text an edit writes provides.
ProvidedBy(e) ==
    IF e.newText = EmptyText THEN {}
    ELSE UNION { UNION { Provides(line[c]) : c \in 1..Len(line) } : line \in Range(e.newText) }

EditedImports == SelectSeq(ImportDeclarations(rbefore), LAMBDA st : EditsAt(st) # <<>>)

OtherBindingsKept(st) ==
    \A k \in 1..Len(EditsAt(st)) :
        { b \in Provides(st.node) : b.local # T } \subseteq ProvidedBy(EditsAt(st)[k])

\* C27 (as stated): when an import declaration is replaced or deleted by the
\* rewrite, every other binding it provided, a default import beside the
\* named list and the exported name of an aliased binding included, is still
\* provided afterwards.
C27_OtherBindingsSurvive ==
    Ran => \A i \in 1..Len(EditedImports) : OtherBindingsKept(EditedImports[i])

IsPlainNamed(node) ==
    /\ node.default = ""
    /\ \A i \in 1..Len(node.elements) : node.elements[i].prop = ""

\* The same for declarations with neither a default import nor an aliased
\* binding.
C27_PlainBindingsSurvive ==
    Ran => \A i \in 1..Len(EditedImports) :
              IsPlainNamed(EditedImports[i].node) => OtherBindingsKept(EditedImports[i])

----------------------------------------------------------------------------
(* Claims about the whole move. *)

DeclarationSomewhere ==
    \/ Declares(fs[document], selectedType.name)
    \/ destinationPath \in Files /\ Declares(fs[destinationPath], selectedType.name)

\* C28 (as stated): at the end of every run of moveType, successful or
\* failed, the declaration is in the source file or in the destination
\* file.
C28_DeclarationNeverLost == (Done /\ selectedType.some) => DeclarationSomewhere

\* The same for runs in which the editor applied every edit.
C28_DeclarationKeptWhenApplied ==
    (Done /\ selectedType.some /\ AllApplied) => DeclarationSomewhere

----------------------------------------------------------------------------
(* Claims about a change that is processed more than once. *)

\* The batch updateImports computes when the same change comes again, and
\* the document once that batch is applied.
SecondBatch == calculateEditsForDocument(rdoc, rchange)

AfterSecond == ApplyTextEdits(rdoc, SecondBatch)

\* The change was processed once, on the document it was built from, and
\* its batch was applied.
ProcessedOnce == rphase = "once" /\ rok /\ FromDocument

\* On one document: the batch for the change that comes again is computed
\* from the document as the first one left it, and changes no import.
C29_SecondBatchChangesNothing ==
    ProcessedOnce =>
        /\ CanApply(rdoc, SecondBatch)
        /\ ImportBindings(AfterSecond) = ImportBindings(rdoc)
        /\ [i \in 1..Len(ImportDeclarations(AfterSecond)) |-> ImportDeclarations(AfterSecond)[i].node]
             = [i \in 1..Len(ImportDeclarations(rdoc)) |-> ImportDeclarations(rdoc)[i].node]

\* The files the loop of updateImports visits more than once.
RepeatedFiles == { f \in Files : Len(ChangesFor(f)) >= 2 }

\* The file as one location in the reference list leaves it.
AfterOneChange(f) ==
    ApplyTextEdits(fs0[f].doc, calculateEditsForDocument(fs0[f].doc, ChangesFor(f)[1]))

ImportsProcessed == pc \in {"save", "done"} /\ AllApplied

\* C29: when the reference list has several locations in one file, the
\* imports of that file after updateImports are the same as if the list had
\* exactly one location in that file.
C29_RepeatHarmless ==
    ImportsProcessed =>
        \A f \in RepeatedFiles : ImportBindings(fs[f].doc) = ImportBindings(AfterOneChange(f))

\* C29 witness: b.ts was listed twice, both batches were applied, and b.ts
\* now imports the type from the new path, once.
C29_Witness ==
    /\ ImportsProcessed
    /\ FileB \in RepeatedFiles
    /\ fs[FileB] # fs0[FileB]
    /\ Len(BindersOf(fs[FileB].doc, selectedType.name)) = 1
    /\ Binds(fs[FileB].doc, selectedType.name, ChangesFor(FileB)[1].newImportPath)

\* The referenced files that had no named import binding the type when the
\* command was invoked.
Unimporting ==
    { f \in ReferencedFiles : BindersOf(fs0[f].doc, selectedType.name) = <<>> }

\* The texts a file can have through the steps of moveType other than the
\* import rewrite: untouched, the declaration deleted, the declaration
\* written to it.
DeclarationDeleted(file) ==
    File(ApplyTextEdits(file.doc,
                        <<ImportEdit(MkRange(selectedType.start, selectedType.end), EmptyText)>>))

DeclarationWritten(files, f) ==
    createDestinationFile(files, f, StmtText(selectedType.node))

OutsideImportRewrite(f) ==
    {fs0[f]}
    \cup (IF f = document THEN {DeclarationDeleted(fs0[f])} ELSE {})
    \cup (IF f = destinationPath
          THEN {DeclarationWritten(fs0, f),
                DeclarationWritten([fs0 EXCEPT ![document] = DeclarationDeleted(fs0[document])], f)}
          ELSE {})

\* C30: a file of the reference list with no named import binding the type
\* gets no ImportChange, no edit of updateImports is submitted for it, and
\* its text is what the other steps of the move left.
C30_UnimportingLeftAlone ==
    \A f \in Unimporting :
        /\ ChangesFor(f) = <<>>
        /\ \A i \in 1..Len(ImportSubmissions) : ImportSubmissions[i].uri # f
        /\ fs[f] \in OutsideImportRewrite(f)

\* C30 witness: the move succeeded, the source file a.ts was in the reference
\* list, and the importing file b.ts was rewritten.
C30_Witness ==
    /\ ReportedSuccess
    /\ AllApplied
    /\ document = FileA
    /\ FileA \in Unimporting
    /\ ChangesFor(FileB) # <<>>
    /\ fs[FileB] # fs0[FileB]
    /\ fs[FileA] = DeclarationDeleted(fs0[FileA])

====
